---- MODULE Spec2Model ----
(***************************************************************************)
(* A model of the numerical core of PymoNNto-Behaviors:                    *)
(*   - neuron dynamics: PymoNNtoBehaviors/neurons/LIFs.py (LIF, ELIF,      *)
(*     AELIF) and the standalone neurons/LIF.py;                           *)
(*   - plasticity: PymoNNtoBehaviors/learning/STDP.py and learning/STDP.py;*)
(*   - convolutional projection: PymoNNtoBehaviors/connections/            *)
(*     convolution.py.                                                     *)
(*                                                                         *)
(* Numbers.  Python floats are modelled as exact rationals <<num, den>>    *)
(* in lowest terms with den > 0, so that equality of two model values is   *)
(* equality of the numbers; float rounding is not modelled.  np.exp is     *)
(* transcendental and is modelled by a fixed positive, strictly increasing *)
(* rational-valued interpolant (see Exp).  Spike vectors are numeric 0/1   *)
(* vectors, as numpy treats booleans in arithmetic.                        *)
(***************************************************************************)
EXTENDS Integers, Sequences, FiniteSets, TLC

\* ------------------------------------------------------------------ bounds
MaxN == 2
MaxTick == 3
PairTicks == 4
MaxSyn == 2
StdpTicks == 2
MaxSide == 2
MaxK == 2
MaxF == 2
FwdTicks == 1

\* ------------------------------------------------------- rational numbers
Abs(x) == IF x < 0 THEN -x ELSE x

RECURSIVE GCD(_, _)
GCD(a, b) == IF b = 0 THEN a ELSE GCD(b, a % b)

LCM(a, b) == (a \div GCD(a, b)) * b

QNorm(n, d) ==
    LET g == GCD(Abs(n), Abs(d))
        s == IF d < 0 THEN -1 ELSE 1
    IN  <<(s * n) \div g, (s * d) \div g>>

Q(n) == <<n, 1>>

QAdd(a, b) ==
    IF a[2] = 1 /\ b[2] = 1
    THEN <<a[1] + b[1], 1>>
    ELSE LET l == LCM(a[2], b[2])
         IN  QNorm(a[1] * (l \div a[2]) + b[1] * (l \div b[2]), l)

QNeg(a) == <<-a[1], a[2]>>

QSub(a, b) == QAdd(a, QNeg(b))

QMul(a, b) ==
    IF a[2] = 1 /\ b[2] = 1
    THEN <<a[1] * b[1], 1>>
    ELSE LET g1 == GCD(Abs(a[1]), b[2])
             g2 == GCD(Abs(b[1]), a[2])
         IN  QNorm((a[1] \div g1) * (b[1] \div g2),
                   (a[2] \div g2) * (b[2] \div g1))

QDiv(a, b) == QMul(a, QNorm(b[2], b[1]))

QLe(a, b) == a[1] * b[2] <= b[1] * a[2]

QGe(a, b) == QLe(b, a)

QGt(a, b) == ~QLe(a, b)

QFloor(a) == a[1] \div a[2]

RECURSIVE Pow2(_)
Pow2(k) == IF k = 0 THEN 1 ELSE 2 * Pow2(k - 1)

\* np.exp(x): a positive, strictly increasing, continuous stand-in,
\* 2^floor(x) * (1 + (x - floor(x))).
Exp(x) ==
    LET k == QFloor(x)
        f == QSub(x, Q(k))
        p == IF k >= 0 THEN Q(Pow2(k)) ELSE <<1, Pow2(-k)>>
    IN  QMul(p, QAdd(Q(1), f))

\* np.clip with the upper limit dropped: maximum(x, lo).
ClipBelowOnly(x, lo, hi) == IF QLe(x, lo) THEN lo ELSE x

\* np.clip(x, lo, hi) == minimum(maximum(x, lo), hi)
Clip(x, lo, hi) ==
    LET m == IF QLe(x, lo) THEN lo ELSE x
    IN  IF QLe(hi, m) THEN hi ELSE m

\* --------------------------------------------------------- host helpers
\* neurons.get_neuron_vec(mode=...): a vector of the population's size.
GetNeuronVec(n, mode) ==
    [i \in 1..n |-> IF mode = "ones()" THEN Q(1) ELSE Q(0)]

\* neurons.get_neuron_vec() with no mode: the host's default is zeros.
GetNeuronVecDefault(n) == GetNeuronVec(n, "zeros()")

\* ------------------------------------------- PymoNNtoBehaviors/neurons/LIFs.py
\* A population is a record [v, spikes, A, I, dt]; par holds the scalar
\* attributes copied by set_init_attrs_as_variables.

LIF_initialize(n, par, nrn) ==
    [nrn EXCEPT
        !.v = [i \in 1..n |-> QMul(GetNeuronVec(n, "ones()")[i], par.v_rest)],
        !.spikes = [i \in 1..n |-> GetNeuronVec(n, "zeros()")[i][1]]]

LIF_set_variables(n, par, nrn) == LIF_initialize(n, par, nrn)

\* _dv_dt with the input current subtracted: delta_v - ri.
LIF_dv_dt_MinusRI(par, nrn) ==
    [i \in DOMAIN nrn.v |->
        LET delta_v == QSub(par.v_rest, nrn.v[i])
            ri == QMul(par.R, nrn.I[i])
        IN  QSub(delta_v, ri)]

LIF_dv_dt(par, nrn) ==
    [i \in DOMAIN nrn.v |->
        LET delta_v == QSub(par.v_rest, nrn.v[i])
            ri == QMul(par.R, nrn.I[i])
        IN  QAdd(delta_v, ri)]

\* _fire without its second statement: spikes detected, v left alone.
LIF_fire_NoReset(par, nrn) ==
    [nrn EXCEPT
        !.spikes = [i \in DOMAIN nrn.v |->
                       IF QGe(nrn.v[i], par.threshold) THEN 1 ELSE 0]]

LIF_fire(par, nrn) ==
    LET spikes == [i \in DOMAIN nrn.v |->
                      IF QGe(nrn.v[i], par.threshold) THEN 1 ELSE 0]
    IN  [nrn EXCEPT
            !.spikes = spikes,
            !.v = [i \in DOMAIN nrn.v |->
                      IF spikes[i] = 1 THEN par.v_reset ELSE nrn.v[i]]]

LIF_new_iteration(par, nrn) ==
    LET fired == LIF_fire(par, nrn)
        dv == LIF_dv_dt(par, fired)
    IN  [fired EXCEPT
            !.v = [i \in DOMAIN fired.v |->
                      QAdd(fired.v[i], QDiv(dv[i], par.tau))]]

ELIF_set_variables(n, par, nrn) == LIF_initialize(n, par, nrn)

ELIF_dv_dt(par, nrn) ==
    LET simple == LIF_dv_dt(par, nrn)
    IN  [i \in DOMAIN nrn.v |->
            LET v_m == QDiv(QSub(nrn.v[i], par.theta_rh), par.sharpness)
                nonlinear_f == QMul(par.sharpness, Exp(v_m))
            IN  QAdd(simple[i], nonlinear_f)]

ELIF_new_iteration(par, nrn) ==
    LET fired == LIF_fire(par, nrn)
        dv == ELIF_dv_dt(par, fired)
    IN  [fired EXCEPT
            !.v = [i \in DOMAIN fired.v |->
                      QAdd(fired.v[i], QDiv(dv[i], par.tau))]]

AELIF_set_variables(n, par, nrn) ==
    [LIF_initialize(n, par, nrn) EXCEPT !.A = GetNeuronVec(n, "zeros()")]

AELIF_dA_dt(par, nrn) ==
    [i \in DOMAIN nrn.v |->
        LET spike_adaptation == QMul(QMul(par.beta, par.tau_a), Q(nrn.spikes[i]))
            sub_thresh_adaptation == QMul(par.alpha, QSub(nrn.v[i], par.v_rest))
        IN  QSub(QAdd(sub_thresh_adaptation, spike_adaptation), nrn.A[i])]

\* AELIF.new_iteration with _dA_dt evaluated before v is integrated.
AELIF_new_iteration_StaleV(par, nrn) ==
    LET fired == LIF_fire(par, nrn)
        dv == ELIF_dv_dt(par, fired)
        dA == AELIF_dA_dt(par, fired)
    IN  [fired EXCEPT
            !.v = [i \in DOMAIN fired.v |->
                      QAdd(fired.v[i],
                           QDiv(QSub(dv[i], QMul(par.R, fired.A[i])), par.tau))],
            !.A = [i \in DOMAIN fired.v |-> QDiv(dA[i], par.tau_a)]]

AELIF_new_iteration(par, nrn) ==
    LET fired == LIF_fire(par, nrn)
        dv == ELIF_dv_dt(par, fired)
        dv_dt == [i \in DOMAIN fired.v |->
                     QSub(dv[i], QMul(par.R, fired.A[i]))]
        integrated == [fired EXCEPT
                          !.v = [i \in DOMAIN fired.v |->
                                    QAdd(fired.v[i], QDiv(dv_dt[i], par.tau))]]
        dA == AELIF_dA_dt(par, integrated)
    IN  [integrated EXCEPT
            !.A = [i \in DOMAIN integrated.v |-> QDiv(dA[i], par.tau_a)]]

\* ----------------------------------------------------------- neurons/LIF.py
NeuronsLIF_set_variables(n, par, nrn) ==
    [nrn EXCEPT
        !.v = [i \in 1..n |-> QMul(GetNeuronVecDefault(n)[i], par.v_rest)],
        !.spikes = [i \in 1..n |->
                       IF QGt(GetNeuronVecDefault(n)[i], par.threshold)
                       THEN 1 ELSE 0],
        !.dt = Q(1)]

\* neurons/LIF.py new_iteration with the spikes taken from v before the
\* integration step.
NeuronsLIF_new_iteration_DetectFirst(par, nrn) ==
    LET dv_dt == [i \in DOMAIN nrn.v |->
                     QAdd(QSub(par.v_rest, nrn.v[i]), QMul(par.R, nrn.I[i]))]
        spikes == [i \in DOMAIN nrn.v |->
                      IF QGe(nrn.v[i], par.threshold) THEN 1 ELSE 0]
    IN  [nrn EXCEPT
            !.spikes = spikes,
            !.v = [i \in DOMAIN nrn.v |->
                      IF spikes[i] = 1 THEN par.v_reset
                      ELSE QAdd(nrn.v[i], QDiv(QMul(dv_dt[i], nrn.dt), par.tau))]]

NeuronsLIF_new_iteration(par, nrn) ==
    LET dv_dt == [i \in DOMAIN nrn.v |->
                     QAdd(QSub(par.v_rest, nrn.v[i]), QMul(par.R, nrn.I[i]))]
        v1 == [i \in DOMAIN nrn.v |->
                  QAdd(nrn.v[i], QDiv(QMul(dv_dt[i], nrn.dt), par.tau))]
        spikes == [i \in DOMAIN nrn.v |->
                      IF QGe(v1[i], par.threshold) THEN 1 ELSE 0]
    IN  [nrn EXCEPT
            !.spikes = spikes,
            !.v = [i \in DOMAIN nrn.v |->
                      IF spikes[i] = 1 THEN par.v_reset ELSE v1[i]]]

\* ------------------------------------------------------ numpy helpers
\* int(np.sqrt(n))
ISqrt(n) == CHOOSE k \in 0..n : k * k <= n /\ (k + 1) * (k + 1) > n

\* The length numpy broadcasts two 1-D lengths to; -1 when it raises.
BLen(a, b) == IF a = b THEN a ELSE IF a = 1 THEN b ELSE IF b = 1 THEN a ELSE -1

\* Element i of a 1-D operand under broadcasting.
At(vec, i) == IF Len(vec) = 1 THEN vec[1] ELSE vec[i]

RECURSIVE SumQ(_, _)
SumQ(S, term) ==
    IF S = {} THEN Q(0)
    ELSE LET x == CHOOSE y \in S : TRUE
         IN  QAdd(term[x], SumQ(S \ {x}, term))

\* ------------------------- PymoNNtoBehaviors/connections/convolution.py
\* A tensor is [shape, val] with val a function of 0-based index tuples.
Idx4(shape) ==
    (0..shape[1] - 1) \X (0..shape[2] - 1) \X (0..shape[3] - 1) \X (0..shape[4] - 1)

\* Strides, in elements, of a C-contiguous 4-D array.
Strides4(shape) ==
    <<shape[2] * shape[3] * shape[4], shape[3] * shape[4], shape[4], 1>>

\* The element at a memory offset of a C-contiguous 4-D array.
Flat4(arr, off) ==
    LET st == Strides4(arr.shape)
    IN  arr.val[<<off \div st[1], (off % st[1]) \div st[2],
                  (off % st[2]) \div st[3], off % st[3]>>]

\* img.strides[:3] + img.strides[1:], the strides of the as_strided view
\* (n, y, x, i, j, c).
ViewStridesSwapped(st) == <<st[1], st[2], st[3], st[3], st[2], st[4]>>

ViewStrides(st) == <<st[1], st[2], st[3], st[2], st[3], st[4]>>

\* Conv2D.__conv2d(src, kernels, padding): [raised, shape, val].
Conv2D_conv2d(srcT, kernels, padding) ==
    LET h == srcT.shape[2] + padding[1] * 2
        w == srcT.shape[3] + padding[2] * 2
        ishape == <<srcT.shape[1], h, w, srcT.shape[4]>>
        img == [shape |-> ishape,
                val |-> [ix \in Idx4(ishape) |->
                    IF /\ padding[1] <= ix[2] /\ ix[2] < h - padding[1]
                       /\ padding[2] <= ix[3] /\ ix[3] < w - padding[2]
                    THEN srcT.val[<<ix[1], ix[2] - padding[1],
                                    ix[3] - padding[2], ix[4]>>]
                    ELSE Q(0)]]
        h_out == (srcT.shape[2] - kernels.shape[1] + 2 * padding[1]) + 1
        w_out == (srcT.shape[3] - kernels.shape[2] + 2 * padding[2]) + 1
        st == Strides4(ishape)
        vstrides == ViewStrides(st)
        inp(n, y, x, i, j, c) ==
            Flat4(img, n * vstrides[1] + y * vstrides[2] + x * vstrides[3]
                       + i * vstrides[4] + j * vstrides[5] + c * vstrides[6])
        oshape == <<ishape[1], h_out, w_out, kernels.shape[4]>>
        window == (0..kernels.shape[1] - 1) \X (0..kernels.shape[2] - 1)
                      \X (0..ishape[4] - 1)
    IN  IF h_out < 0 \/ w_out < 0 \/ ishape[4] # kernels.shape[3]
        THEN [raised |-> "ValueError", shape |-> <<>>, val |-> <<>>]
        ELSE [raised |-> "",
              shape |-> oshape,
              val |-> [o \in Idx4(oshape) |->
                  SumQ(window,
                       [k \in window |->
                           QMul(inp(o[1], o[2], o[3], k[1], k[2], k[3]),
                                kernels.val[<<k[1], k[2], k[3], o[4]>>])])]]

\* np.random.uniform(w_min, w_max, shape): one of three draws, all inside
\* [w_min, w_max]: every entry w_min, every entry w_max, or a ramp of
\* distinct values over the entries in memory order (in steps of 1 when the
\* interval is wide enough, of (w_max - w_min) / entries otherwise).
Draws == {"min", "max", "ramp"}

RampStep(w_min, w_max, total) ==
    IF QLe(Q(total), QSub(w_max, w_min))
    THEN Q(1)
    ELSE QDiv(QSub(w_max, w_min), Q(total))

Uniform(draw, w_min, w_max, shape) ==
    LET st == Strides4(shape)
        total == shape[1] * st[1]
    IN  [ix \in Idx4(shape) |->
            IF draw = "min" THEN w_min
            ELSE IF draw = "max" THEN w_max
            ELSE QAdd(w_min,
                      QMul(RampStep(w_min, w_max, total),
                           Q(ix[1] * st[1] + ix[2] * st[2] + ix[3] * st[3]
                             + ix[4]))) ]

\* Conv2D.set_variables(synapses): [syn, raised].
Conv2D_set_variables(synPar, syn, src, draw) ==
    LET pad == IF syn.pad
               THEN <<synPar.kernel_size[1] \div 2, synPar.kernel_size[2] \div 2>>
               ELSE <<0, 0>>
        r == ISqrt(src.size)
        tagged == [syn EXCEPT !.tags = @ \cup {"conv2d"}, !.pad = pad]
        shape == <<synPar.kernel_size[1], synPar.kernel_size[2],
                   Len(src.s) \div (r * r), synPar.n_filters>>
    IN  IF Len(src.s) # r * r
        THEN [tagged EXCEPT !.raised = "ValueError"]
        ELSE [tagged EXCEPT
                 !.is1d = (Len(src.s) = r * r),
                 !.shape = shape,
                 !.W = Uniform(draw, synPar.w_min, synPar.w_max, shape)]

\* The (1, r, r, 1) tensor new_iteration hands to __conv2d.
Conv2D_input(src) ==
    LET r == ISqrt(src.size)
    IN  [shape |-> <<1, r, r, 1>>,
         val |-> [ix \in Idx4(<<1, r, r, 1>>) |-> src.s[ix[2] * r + ix[3] + 1]]]

\* dst.I += out.flatten(): [dst, raised].
Conv2D_accumulate(dst, out) ==
    LET n == out.shape[1] * out.shape[2] * out.shape[3] * out.shape[4]
        flat == [m \in 1..n |->
                    out.val[<<0, ((m - 1) \div out.shape[4]) \div out.shape[3],
                              ((m - 1) \div out.shape[4]) % out.shape[3],
                              (m - 1) % out.shape[4]>>]]
    IN  IF out.raised # "" \/ ~(n = dst.size \/ n = 1)
        THEN [dst |-> dst, raised |-> "ValueError"]
        ELSE [dst |-> [dst EXCEPT !.I = [m \in 1..dst.size |->
                                            QAdd(dst.I[m], At(flat, m))]],
              raised |-> ""]

\* The tail of Conv2D.new_iteration, given the value __conv2d returned.
Conv2D_add_current(dst, inp, kernels, pad, out) ==
    LET acc == Conv2D_accumulate(dst, out)
    IN  [dst |-> acc.dst,
         raised |-> acc.raised,
         call |-> [src |-> inp, kernels |-> kernels, padding |-> pad, out |-> out]]

\* Conv2D.new_iteration(synapses): [dst, raised, call], call the __conv2d call
\* made (its arguments and result).
Conv2D_new_iteration(syn, src, dst) ==
    LET r == ISqrt(src.size)
        inp == Conv2D_input(src)
        kernels == [shape |-> syn.shape, val |-> syn.W]
    IN  IF Len(src.s) # r * r \/ ~syn.is1d
        THEN [dst |-> dst, raised |-> "ValueError", call |-> <<>>]
        ELSE Conv2D_add_current(dst, inp, kernels, syn.pad,
                                Conv2D_conv2d(inp, kernels, syn.pad))

\* ------------------------------- PymoNNtoBehaviors/learning/STDP.py
\* STDP.set_variables(synapses): [syn, src, dst].
STDP_set_variables(syn, src, dst) ==
    [syn |-> [syn EXCEPT !.tags = @ \cup {"STDP"}],
     src |-> [src EXCEPT !.trace = GetNeuronVecDefault(src.size)],
     dst |-> [dst EXCEPT !.trace = GetNeuronVecDefault(dst.size)]]

\* trace += (-trace / tau + spikes) * dt
STDP_trace(pop, tau, dt) ==
    [pop EXCEPT !.trace = [i \in 1..pop.size |->
        QAdd(pop.trace[i],
             QMul(QAdd(QDiv(QNeg(pop.trace[i]), tau), Q(pop.spikes[i])), dt))]]

\* STDP.conv2d_update(synapses): the locals it computes and where it raises.
STDP_conv2d_update(synPar, syn, src, dst) ==
    LET p0 == syn.pad[1]
        p1 == syn.pad[2]
        h_in == ISqrt(src.size) + 2 * p0
        w_in == ISqrt(src.size) + 2 * p1
        c_in == src.size \div (h_in * w_in)
        \* pre_spikes[:, p0:h_in-p0, p1:w_in-p1, :] = src_spikes broadcasts the
        \* 1-D src_spikes along the last axis of the (1, H, W, c_in) region.
        assignable == Len(src.spikes) = 1 \/ Len(src.spikes) = c_in
        \* sliding_window_view(x, window_shape) with axis None needs one
        \* window length per dimension of x.
        windowable == Len(synPar.kernel_size) = 4
    IN  [h_in |-> h_in, w_in |-> w_in, c_in |-> c_in,
         raised |-> IF assignable /\ windowable THEN "" ELSE "ValueError",
         at |-> IF ~assignable THEN "pre_spikes" ELSE "sliding_window_view",
         windows |-> 0]

\* The dense branch: 1-D elementwise products, then W + vector under numpy
\* broadcasting, then np.clip.  [W, shape, raised].
STDP_dense(synPar, syn, src, dst) ==
    LET L == BLen(dst.size, src.size)
        dw_minus == [i \in 1..L |->
            QMul(QMul(QNeg(synPar.a_minus), At(dst.trace, i)), Q(At(src.spikes, i)))]
        dw_plus == [i \in 1..L |->
            QMul(QMul(synPar.a_plus, At(src.trace, i)), Q(At(dst.spikes, i)))]
        cols == BLen(syn.shape[2], L)
    IN  IF L = -1 \/ cols = -1
        THEN [syn EXCEPT !.raised = "ValueError"]
        ELSE [syn EXCEPT
                 !.shape = <<syn.shape[1], cols>>,
                 !.W = [ix \in (1..syn.shape[1]) \X (1..cols) |->
                     Clip(QAdd(syn.W[<<ix[1], IF syn.shape[2] = 1 THEN 1 ELSE ix[2]>>],
                               QMul(QAdd(At(dw_plus, ix[2]), At(dw_minus, ix[2])),
                                    synPar.dt)),
                          synPar.w_min, synPar.w_max)]]

\* STDP.new_iteration(synapses): [syn, src, dst].
STDP_new_iteration(synPar, syn, src, dst) ==
    LET src1 == STDP_trace(src, synPar.tau_plus, synPar.dt)
        dst1 == STDP_trace(dst, synPar.tau_minus, synPar.dt)
        geom == STDP_conv2d_update(synPar, syn, src1, dst1)
    IN  IF "conv2d" \in syn.tags
        THEN [syn |-> [syn EXCEPT !.geom = geom, !.raised = geom.raised],
              src |-> src1, dst |-> dst1]
        ELSE [syn |-> STDP_dense(synPar, syn, src1, dst1),
              src |-> src1, dst |-> dst1]

\* ------------------------------------------------------ learning/STDP.py
LearningSTDP_set_variables(syn, src, dst) ==
    [syn |-> [syn EXCEPT !.tags = @ \cup {"STDP"}],
     src |-> [src EXCEPT !.trace = GetNeuronVecDefault(src.size)],
     dst |-> [dst EXCEPT !.trace = GetNeuronVecDefault(dst.size)]]

LearningSTDP_new_iteration(synPar, syn, src, dst) ==
    LET src1 == STDP_trace(src, synPar.tau_plus, synPar.dt)
        dst1 == STDP_trace(dst, synPar.tau_minus, synPar.dt)
    IN  [syn |-> STDP_dense(synPar, syn, src1, dst1), src |-> src1, dst |-> dst1]

\* ------------------------------------------------------------ parameters
\* The attribute values of tests/test_LIFs.py (tau_a is not set there).
TestPar ==
    [v_rest |-> Q(-65), v_reset |-> Q(-65), threshold |-> Q(-55), R |-> Q(1),
     tau |-> Q(10), sharpness |-> Q(5), theta_rh |-> Q(-58), alpha |-> Q(1),
     beta |-> Q(2), tau_a |-> Q(2)]

\* A second attribute set, with v_reset # v_rest and R # 1.
SmallPar ==
    [v_rest |-> Q(-2), v_reset |-> Q(-3), threshold |-> Q(1), R |-> Q(2),
     tau |-> Q(2), sharpness |-> Q(1), theta_rh |-> Q(-4), alpha |-> Q(1),
     beta |-> Q(2), tau_a |-> Q(2)]

\* The input currents the host may write for a neuron under each attribute set.
InputsOf(p) == IF p = TestPar THEN {Q(0), Q(80)} ELSE {Q(0), Q(2)}

Impls == {"LIF", "ELIF", "AELIF", "neurons.LIF"}

\* The exponential variants run under SmallPar only (the rational stand-in
\* for exp keeps small denominators there).
ParsOf(i) == IF i \in {"LIF", "neurons.LIF"} THEN {TestPar, SmallPar} ELSE {SmallPar}

Unallocated == [v |-> <<>>, spikes |-> <<>>, A |-> <<>>, I |-> <<>>, dt |-> <<>>]

InputVecs(n, p) == [1..n -> InputsOf(p)]

AllZero(vec) == \A i \in DOMAIN vec : vec[i] = Q(0)

\* A projection before any set_variables: no tags, no W, no exception.
NoSyn == [tags |-> {}, pad |-> FALSE, W |-> <<>>, shape |-> <<>>,
          raised |-> "", geom |-> <<>>, is1d |-> FALSE]

NoCall == [src |-> <<>>, kernels |-> <<>>, padding |-> <<>>,
           out |-> [raised |-> "none", shape |-> <<>>, val |-> <<>>]]

NoPop == [size |-> 0, spikes |-> <<>>, trace |-> <<>>, s |-> <<>>, I |-> <<>>]

StdpParA ==
    [tau_plus |-> Q(2), tau_minus |-> Q(2), a_plus |-> Q(1), a_minus |-> Q(1),
     dt |-> Q(1), w_min |-> Q(0), w_max |-> Q(1),
     kernel_size |-> <<1, 1>>, n_filters |-> 1]

StdpParB ==
    [tau_plus |-> Q(1), tau_minus |-> Q(2), a_plus |-> Q(2), a_minus |-> Q(3),
     dt |-> Q(2), w_min |-> Q(-1), w_max |-> Q(2),
     kernel_size |-> <<1, 1>>, n_filters |-> 1]

\* ------------------------------------------------------------------- state
VARIABLES
    \* one population under one behaviour (Spec)
    impl,       \* which behaviour class drives the population
    size,       \* the population's size
    par,        \* its scalar attributes
    nrn,        \* its arrays: v, spikes, A, I (and dt for neurons/LIF.py)
    pc,         \* "constructed" before set_variables, "ready" after
    tick,       \* number of new_iteration calls that have returned
    quiet,      \* every tick so far was driven with I == 0
    \* the two base LIF classes side by side (SpecPair)
    pkg,        \* a population under PymoNNtoBehaviors/neurons/LIFs.py LIF
    alt,        \* a population under neurons/LIF.py LIF
    pairPar,    \* the attributes both share
    start,      \* the voltage vector both were started from
    pkgTick,    \* ticks of pkg that have returned
    altTick,    \* ticks of alt that have returned
    \* one projection with its two populations (SpecSTDP, SpecConv)
    kind,       \* "dense" or "conv": the behaviours attached to the projection
    stdpImpl,   \* which STDP class is attached
    synPar,     \* the projection's scalar attributes
    syn,        \* its tags, pad, W (with its shape) and the last exception
    src,        \* source population: size, spikes, trace, s
    dst,        \* destination population: size, spikes, trace, I
    synPc,      \* "constructed", "conv_set", "ready" or "raised"
    synTick,    \* number of per-tick calls made on the projection
    call        \* the last Conv2D.__conv2d call: its arguments and result

neuronVars == <<impl, size, par, nrn, pc, tick, quiet>>

pairVars == <<pkg, alt, pairPar, start, pkgTick, altTick>>

synVars == <<kind, stdpImpl, synPar, syn, src, dst, synPc, synTick, call>>

vars == <<neuronVars, pairVars, synVars>>

\* The parts of the state a specification does not use stay as constructed.
NeuronsIdle ==
    /\ impl = "none"
    /\ size = 0
    /\ par = SmallPar
    /\ nrn = Unallocated
    /\ pc = "idle"
    /\ tick = 0
    /\ quiet = TRUE

PairIdle ==
    /\ pkg = Unallocated
    /\ alt = Unallocated
    /\ pairPar = SmallPar
    /\ start = <<>>
    /\ pkgTick = 0
    /\ altTick = 0

SynIdle ==
    /\ kind = "none"
    /\ stdpImpl = "none"
    /\ synPar = StdpParA
    /\ syn = NoSyn
    /\ src = NoPop
    /\ dst = NoPop
    /\ synPc = "idle"
    /\ synTick = 0
    /\ call = NoCall

\* --------------------------------------------------- one population (Spec)
NeuronsInit ==
    /\ impl \in Impls
    /\ size \in 1..MaxN
    /\ par \in ParsOf(impl)
    /\ nrn = Unallocated
    /\ pc = "constructed"
    /\ tick = 0
    /\ quiet = TRUE
    /\ PairIdle
    /\ SynIdle

Allocate(new) ==
    /\ pc = "constructed"
    /\ nrn' = new
    /\ pc' = "ready"
    /\ UNCHANGED <<impl, size, par, tick, quiet, pairVars, synVars>>

SetVariablesLIF == impl = "LIF" /\ Allocate(LIF_set_variables(size, par, nrn))

SetVariablesELIF == impl = "ELIF" /\ Allocate(ELIF_set_variables(size, par, nrn))

SetVariablesAELIF == impl = "AELIF" /\ Allocate(AELIF_set_variables(size, par, nrn))

SetVariablesNeuronsLIF ==
    impl = "neurons.LIF" /\ Allocate(NeuronsLIF_set_variables(size, par, nrn))

\* The host writes the input current, then calls the behaviour's new_iteration.
Step(inp, new) ==
    /\ pc = "ready"
    /\ tick < MaxTick
    /\ nrn' = new
    /\ tick' = tick + 1
    /\ quiet' = (quiet /\ AllZero(inp))
    /\ UNCHANGED <<impl, size, par, pc, pairVars, synVars>>

TickLIF ==
    /\ impl = "LIF"
    /\ \E inp \in InputVecs(size, par) :
           Step(inp, LIF_new_iteration(par, [nrn EXCEPT !.I = inp]))

TickELIF ==
    /\ impl = "ELIF"
    /\ \E inp \in InputVecs(size, par) :
           Step(inp, ELIF_new_iteration(par, [nrn EXCEPT !.I = inp]))

TickAELIF ==
    /\ impl = "AELIF"
    /\ \E inp \in InputVecs(size, par) :
           Step(inp, AELIF_new_iteration(par, [nrn EXCEPT !.I = inp]))

TickNeuronsLIF ==
    /\ impl = "neurons.LIF"
    /\ \E inp \in InputVecs(size, par) :
           Step(inp, NeuronsLIF_new_iteration(par, [nrn EXCEPT !.I = inp]))

NeuronsNext ==
    \/ SetVariablesLIF
    \/ SetVariablesELIF
    \/ SetVariablesAELIF
    \/ SetVariablesNeuronsLIF
    \/ TickLIF
    \/ TickELIF
    \/ TickAELIF
    \/ TickNeuronsLIF

Spec == NeuronsInit /\ [][NeuronsNext]_vars

\* ------------------------------------------------ claims on one population
Ticked == pc = "ready" /\ tick >= 1

\* C1 (as stated): in every implementation, a neuron whose spikes[i] is true
\* when new_iteration returns has v[i] == v_reset.
C1_ResetInvariant ==
    Ticked => \A i \in 1..size : nrn.spikes[i] = 1 => nrn.v[i] = par.v_reset

\* C1 (amended): when new_iteration returns with spikes[i] true, neurons/LIF.py
\* leaves v[i] == v_reset, and the package LIF, ELIF and AELIF leave v[i] equal
\* to v_reset advanced by that tick's integration step, that is
\* v_reset + dv(v_reset) / tau with dv the variant's derivative at v_reset
\* (with the tick's I and, for AELIF, the previous A).
C1_ResetAmended ==
    [][tick' = tick + 1 =>
        \A i \in 1..size :
            nrn'.spikes[i] = 1 =>
                LET base == QAdd(QSub(par.v_rest, par.v_reset),
                                 QMul(par.R, nrn'.I[i]))
                    expo == IF impl \in {"ELIF", "AELIF"}
                            THEN QMul(par.sharpness,
                                      Exp(QDiv(QSub(par.v_reset, par.theta_rh),
                                               par.sharpness)))
                            ELSE Q(0)
                    adapt == IF impl = "AELIF" THEN QMul(par.R, nrn.A[i]) ELSE Q(0)
                    dv == QSub(QAdd(base, expo), adapt)
                IN  nrn'.v[i] = IF impl = "neurons.LIF"
                                THEN par.v_reset
                                ELSE QAdd(par.v_reset, QDiv(dv, par.tau))]_vars

\* C1 witness: a package population has returned from a tick with a spiking
\* neuron whose voltage is not v_reset.
C1_Witness ==
    /\ Ticked
    /\ impl = "AELIF"
    /\ \E i \in 1..size : nrn.spikes[i] = 1 /\ nrn.v[i] # par.v_reset

\* C3 (as stated): right after set_variables and before any tick, every
\* implementation has v[i] == v_rest and spikes all false.
C3_InitialState ==
    (pc = "ready" /\ tick = 0) =>
        \A i \in 1..size : nrn.v[i] = par.v_rest /\ nrn.spikes[i] = 0

\* C5 (as stated): a base LIF population initialised by set_variables and driven
\* with I == 0 on every tick has v[i] == v_rest after every tick and never
\* spikes, given v_rest < threshold.
C5_Quiescence ==
    (/\ impl \in {"LIF", "neurons.LIF"}
     /\ Ticked
     /\ quiet
     /\ QGt(par.threshold, par.v_rest)) =>
        \A i \in 1..size : nrn.v[i] = par.v_rest /\ nrn.spikes[i] = 0

StartVoltsOf(p) == IF p = TestPar THEN {Q(-65), Q(-60)} ELSE {Q(-2), Q(0)}

\* Both populations have been through their own set_variables; the host then
\* wrote the same start voltages and the same constant input into both.
PairInit ==
    /\ NeuronsIdle
    /\ SynIdle
    /\ pairPar \in {TestPar, SmallPar}
    /\ \E n \in 1..MaxN :
        /\ start \in [1..n -> StartVoltsOf(pairPar)]
        /\ \E inp \in InputVecs(n, pairPar) :
            /\ pkg = [LIF_set_variables(n, pairPar, Unallocated)
                         EXCEPT !.v = start, !.I = inp]
            /\ alt = [NeuronsLIF_set_variables(n, pairPar, Unallocated)
                         EXCEPT !.v = start, !.I = inp]
    /\ pkgTick = 0
    /\ altTick = 0

PairTickLIF ==
    /\ pkgTick < PairTicks + 1
    /\ pkg' = LIF_new_iteration(pairPar, pkg)
    /\ pkgTick' = pkgTick + 1
    /\ UNCHANGED <<alt, pairPar, start, altTick, neuronVars, synVars>>

PairTickNeuronsLIF ==
    /\ altTick < PairTicks
    /\ alt' = NeuronsLIF_new_iteration(pairPar, alt)
    /\ altTick' = altTick + 1
    /\ UNCHANGED <<pkg, pairPar, start, pkgTick, neuronVars, synVars>>

PairNext == PairTickLIF \/ PairTickNeuronsLIF

SpecPair == PairInit /\ [][PairNext]_vars

\* The periodic-firing scenario: one neuron, the attributes of the tests,
\* started at v_rest, constant I = 80.
Scenario ==
    /\ pairPar = TestPar
    /\ start = <<Q(-65)>>
    /\ pkg.I = <<Q(80)>>

Odd(k) == k % 2 = 1

\* The sequence C4 states: v = -57 without a spike after odd ticks, v = -65
\* with a spike after even ticks.
Claimed(p, k) ==
    k >= 1 => IF Odd(k) THEN (p.v = <<Q(-57)>> /\ p.spikes = <<0>>)
                        ELSE (p.v = <<Q(-65)>> /\ p.spikes = <<1>>)

\* C4 (as stated): in the scenario both base LIF per-tick calls give the
\* claimed sequence.
C4_PeriodicFiring ==
    Scenario => Claimed(alt, altTick) /\ Claimed(pkg, pkgTick)

\* C4 (amended): in the scenario neurons/LIF.py gives the claimed sequence
\* (v = -57 no spike, v = -65 spike, period 2); the package LIF gives v = -57
\* without a spike after tick 1, v = -49.8 without a spike after every even
\* tick and v = -57 with a spike after every odd tick from tick 3 on.
C4_PeriodicAmended ==
    Scenario =>
        /\ Claimed(alt, altTick)
        /\ (pkgTick = 1) => (pkg.v = <<Q(-57)>> /\ pkg.spikes = <<0>>)
        /\ (pkgTick >= 2 /\ ~Odd(pkgTick)) =>
               (pkg.v = <<(<<-249, 5>>)>> /\ pkg.spikes = <<0>>)
        /\ (pkgTick >= 3 /\ Odd(pkgTick)) =>
               (pkg.v = <<Q(-57)>> /\ pkg.spikes = <<1>>)

\* C4 witness: the scenario has run four ticks in both classes.
C4_Witness == Scenario /\ altTick = 4 /\ pkgTick = 4

\* C10: from the same start voltages below threshold, with the same attributes,
\* the same constant input and dt = 1, for every k >= 1 the package LIF after
\* tick k+1 has the spikes neurons/LIF.py has after tick k, and its v is one
\* integration step applied to the v of neurons/LIF.py after tick k.
C10_ShiftEquivalence ==
    (altTick >= 1 /\ pkgTick = altTick + 1) =>
        /\ pkg.spikes = alt.spikes
        /\ \A i \in DOMAIN start :
               pkg.v[i] = QAdd(alt.v[i],
                               QDiv(QAdd(QSub(pairPar.v_rest, alt.v[i]),
                                         QMul(pairPar.R, alt.I[i])),
                                    pairPar.tau))

\* C10 witness: the package class is one tick ahead, and a neuron spiked.
C10_Witness ==
    /\ altTick >= 2
    /\ pkgTick = altTick + 1
    /\ \E i \in DOMAIN start : alt.spikes[i] = 1 /\ pkg.spikes[i] = 1

\* ------------------------------------------ a plastic projection (SpecSTDP)
\* The spike vectors a population may present at a tick: none, all, only the
\* first neuron or only the last.
SpikePatterns(n) ==
    {[i \in 1..n |-> 0], [i \in 1..n |-> 1]}
        \cup {[i \in 1..n |-> IF i = k THEN 1 ELSE 0] : k \in {1, n}}

\* A population of a projection after its own behaviour's set_variables.
Pop(n) ==
    [NoPop EXCEPT !.size = n,
                  !.spikes = [i \in 1..n |-> 0],
                  !.s = [i \in 1..n |-> Q(0)],
                  !.I = [i \in 1..n |-> Q(0)]]

\* The host's dense weight matrix [dst.size, src.size], drawn inside
\* [w_min, w_max] like the kernel of Conv2D.set_variables.
DenseW(draw, p, rows, cols) ==
    [ix \in (1..rows) \X (1..cols) |->
        Uniform(draw, p.w_min, p.w_max, <<1, 1, rows, cols>>)[<<0, 0, ix[1] - 1, ix[2] - 1>>]]

StdpInit ==
    /\ NeuronsIdle
    /\ PairIdle
    /\ kind \in {"dense", "conv"}
    /\ stdpImpl \in (IF kind = "dense" THEN {"STDP", "learning.STDP"} ELSE {"STDP"})
    /\ \E base \in {StdpParA, StdpParB} :
           IF kind = "dense"
           THEN synPar = base
           ELSE \E kh \in 1..MaxK, kw \in 1..MaxK, f \in 1..MaxF :
                    synPar = [base EXCEPT !.kernel_size = <<kh, kw>>, !.n_filters = f]
    /\ \E n \in 1..(IF kind = "dense" THEN MaxSyn ELSE MaxSide * MaxSide) :
           src = Pop(n)
    /\ \E m \in 1..MaxSyn : dst = Pop(m)
    /\ IF kind = "dense"
       THEN \E draw \in Draws :
                syn = [NoSyn EXCEPT !.shape = <<dst.size, src.size>>,
                                    !.W = DenseW(draw, synPar, dst.size, src.size)]
       ELSE \E flag \in BOOLEAN : syn = [NoSyn EXCEPT !.pad = flag]
    /\ synPc = "constructed"
    /\ synTick = 0
    /\ call = NoCall

SetVariablesConv2D ==
    /\ kind = "conv"
    /\ synPc = "constructed"
    /\ \E draw \in Draws :
           syn' = Conv2D_set_variables(synPar, syn, src, draw)
    /\ synPc' = IF syn'.raised # "" THEN "raised" ELSE "conv_set"
    /\ UNCHANGED <<kind, stdpImpl, synPar, src, dst, synTick, call, neuronVars, pairVars>>

Attach(new) ==
    /\ synPc = (IF kind = "conv" THEN "conv_set" ELSE "constructed")
    /\ syn' = new.syn
    /\ src' = new.src
    /\ dst' = new.dst
    /\ synPc' = "ready"
    /\ UNCHANGED <<kind, stdpImpl, synPar, synTick, call, neuronVars, pairVars>>

SetVariablesSTDP ==
    stdpImpl = "STDP" /\ Attach(STDP_set_variables(syn, src, dst))

SetVariablesLearningSTDP ==
    stdpImpl = "learning.STDP" /\ Attach(LearningSTDP_set_variables(syn, src, dst))

Plastic(new) ==
    /\ syn' = new.syn
    /\ src' = new.src
    /\ dst' = new.dst
    /\ synPc' = IF new.syn.raised # "" THEN "raised" ELSE "ready"
    /\ synTick' = synTick + 1
    /\ UNCHANGED <<kind, stdpImpl, synPar, call, neuronVars, pairVars>>

\* The populations have ticked (their spikes are this tick's); the host then
\* calls the plasticity behaviour's new_iteration.
TickSTDP ==
    /\ stdpImpl = "STDP"
    /\ synPc = "ready"
    /\ synTick < StdpTicks
    /\ \E ss \in SpikePatterns(src.size), ds \in SpikePatterns(dst.size) :
           Plastic(STDP_new_iteration(synPar, syn, [src EXCEPT !.spikes = ss],
                                      [dst EXCEPT !.spikes = ds]))

TickLearningSTDP ==
    /\ stdpImpl = "learning.STDP"
    /\ synPc = "ready"
    /\ synTick < StdpTicks
    /\ \E ss \in SpikePatterns(src.size), ds \in SpikePatterns(dst.size) :
           Plastic(LearningSTDP_new_iteration(synPar, syn,
                                              [src EXCEPT !.spikes = ss],
                                              [dst EXCEPT !.spikes = ds]))

StdpNext ==
    \/ SetVariablesConv2D
    \/ SetVariablesSTDP
    \/ SetVariablesLearningSTDP
    \/ TickSTDP
    \/ TickLearningSTDP

SpecSTDP == StdpInit /\ [][StdpNext]_vars

InBounds(w) == QLe(synPar.w_min, w) /\ QLe(w, synPar.w_max)

\* C2: with w_min <= w_max and W initialised inside [w_min, w_max], every
\* element of the projection's W lies in [w_min, w_max] after any sequence of
\* STDP new_iteration calls, whatever the spikes and traces were.
C2_WeightBounds ==
    \A ix \in DOMAIN syn.W : InBounds(syn.W[ix])

\* StdpTicks dense updates have returned, both traces are non-zero, and W holds an
\* entry clamped at w_max and another clamped at w_min.
C2_Witness ==
    /\ kind = "dense"
    /\ synTick = StdpTicks
    /\ syn.raised = ""
    /\ \E i \in 1..src.size : src.trace[i] # Q(0)
    /\ \E j \in 1..dst.size : dst.trace[j] # Q(0)
    /\ \E ix \in DOMAIN syn.W : syn.W[ix] = synPar.w_max
    /\ \E ix \in DOMAIN syn.W : syn.W[ix] = synPar.w_min

\* C7: a dense-mode STDP tick returns and leaves, for every destination j and
\* source i, W[j, i] = clip(W_old[j, i] + (a_plus * src.trace[i] * dst.spikes[j]
\* - a_minus * dst.trace[j] * src.spikes[i]) * dt, w_min, w_max) with the traces
\* just updated in that tick, for every pair of sizes.
C7_DenseOuterProduct ==
    [][(kind = "dense" /\ synTick' = synTick + 1) =>
          /\ syn'.raised = ""
          /\ DOMAIN syn'.W = (1..dst.size) \X (1..src.size)
          /\ \A j \in 1..dst.size, i \in 1..src.size :
                 syn'.W[<<j, i>>] =
                     Clip(QAdd(syn.W[<<j, i>>],
                               QMul(QSub(QMul(QMul(synPar.a_plus, src'.trace[i]),
                                              Q(dst'.spikes[j])),
                                         QMul(QMul(synPar.a_minus, dst'.trace[j]),
                                              Q(src'.spikes[i]))),
                                    synPar.dt)),
                          synPar.w_min, synPar.w_max)]_vars

\* C8: once a convolutional-mode STDP tick has run, conv2d_update derived the
\* padded height and width H + 2*pad_h and W + 2*pad_w, the channel count C of
\* the kernel Conv2D.set_variables drew, and formed one window per forward
\* output position, H_out * W_out of them, without raising.
C8_SameGeometry ==
    (kind = "conv" /\ stdpImpl = "STDP" /\ synTick >= 1) =>
        LET r == ISqrt(src.size)
            h_out == r - syn.shape[1] + 2 * syn.pad[1] + 1
            w_out == r - syn.shape[2] + 2 * syn.pad[2] + 1
        IN  /\ syn.geom.h_in = r + 2 * syn.pad[1]
            /\ syn.geom.w_in = r + 2 * syn.pad[2]
            /\ syn.geom.c_in = syn.shape[3]
            /\ syn.geom.raised = ""
            /\ syn.geom.windows = h_out * w_out

\* ----------------------------------- a convolutional projection (SpecConv)
ConvPar == [StdpParB EXCEPT !.w_min = Q(-50), !.w_max = Q(50)]

\* The activity vectors the host may present in src.s.
Acts(n) == {[i \in 1..n |-> Q(1)], [i \in 1..n |-> Q(i)]}

\* H_out * W_out * n_filters of the forward pass, from the attributes.
OutLen(n, ksize, flag, f) ==
    LET p == IF flag THEN <<ksize[1] \div 2, ksize[2] \div 2>> ELSE <<0, 0>>
        ho == ISqrt(n) - ksize[1] + 2 * p[1] + 1
        wo == ISqrt(n) - ksize[2] + 2 * p[2] + 1
    IN  IF ho < 1 \/ wo < 1 THEN 1 ELSE ho * wo * f

\* A projection with the Conv2D behaviour attached, as constructed.
ProjectionInit ==
    /\ kind = "conv"
    /\ stdpImpl = "none"
    /\ \E kh \in 1..MaxK, kw \in 1..MaxK, f \in 1..MaxF :
           synPar = [ConvPar EXCEPT !.kernel_size = <<kh, kw>>, !.n_filters = f]
    /\ \E n \in 1..(MaxSide * MaxSide) : src = Pop(n)
    /\ \E flag \in BOOLEAN :
           /\ syn = [NoSyn EXCEPT !.pad = flag]
           /\ \E m \in {2, OutLen(src.size, synPar.kernel_size, flag,
                                  synPar.n_filters)} : dst = Pop(m)
    /\ synPc = "constructed"
    /\ synTick = 0
    /\ call = NoCall

\* Arguments for Conv2D.__conv2d on its own: an H x W x C input and a kernel
\* (kh, kw, C, F), each with distinct entries, padding zero or half the kernel.
CallInit ==
    /\ kind = "call"
    /\ stdpImpl = "none"
    /\ synPar = ConvPar
    /\ syn = NoSyn
    /\ src = NoPop
    /\ dst = NoPop
    /\ synPc = "idle"
    /\ synTick = 0
    /\ \E H \in 1..MaxSide, W \in 1..MaxSide, C \in 1..MaxF,
          kh \in 1..MaxK, kw \in 1..MaxK, f \in 1..MaxF, flag \in BOOLEAN :
           call = [src |-> [shape |-> <<1, H, W, C>>,
                            val |-> [ix \in Idx4(<<1, H, W, C>>) |->
                                Q(1 + (ix[2] * W + ix[3]) * C + ix[4])]],
                   kernels |-> [shape |-> <<kh, kw, C, f>>,
                                val |-> Uniform("ramp", ConvPar.w_min,
                                                ConvPar.w_max, <<kh, kw, C, f>>)],
                   padding |-> IF flag THEN <<kh \div 2, kw \div 2>> ELSE <<0, 0>>,
                   out |-> [raised |-> "pending", shape |-> <<>>, val |-> <<>>]]

ConvInit == NeuronsIdle /\ PairIdle /\ (ProjectionInit \/ CallInit)

CallConv2d ==
    /\ call.out.raised = "pending"
    /\ call' = [call EXCEPT
                   !.out = Conv2D_conv2d(call.src, call.kernels, call.padding)]
    /\ UNCHANGED <<kind, stdpImpl, synPar, syn, src, dst, synPc, synTick,
                   neuronVars, pairVars>>

\* The host writes src.s, then calls Conv2D.new_iteration.
TickConv2D ==
    /\ kind = "conv"
    /\ stdpImpl = "none"
    /\ synPc = "conv_set"
    /\ synTick < FwdTicks
    /\ \E act \in Acts(src.size) :
       \E r \in {Conv2D_new_iteration(syn, [src EXCEPT !.s = act], dst)} :
               /\ src' = [src EXCEPT !.s = act]
               /\ dst' = r.dst
               /\ syn' = [syn EXCEPT !.raised = r.raised]
               /\ call' = IF r.call = <<>> THEN call ELSE r.call
               /\ synPc' = IF r.raised # "" THEN "raised" ELSE "conv_set"
    /\ synTick' = synTick + 1
    /\ UNCHANGED <<kind, stdpImpl, synPar, neuronVars, pairVars>>

ConvNext == SetVariablesConv2D \/ TickConv2D \/ CallConv2d

SpecConv == ConvInit /\ [][ConvNext]_vars

\* The zero-padded input of a __conv2d call at padded position (y, x), channel c.
Padded(cl, y, x, c) ==
    LET py == y - cl.padding[1]
        px == x - cl.padding[2]
    IN  IF 0 <= py /\ py < cl.src.shape[2] /\ 0 <= px /\ px < cl.src.shape[3]
        THEN cl.src.val[<<0, py, px, c>>]
        ELSE Q(0)

\* sum over i < kh, j < kw, c < C of padded[y+i, x+j, c] * kernel[i, j, c, f]
CrossCorrelation(cl, y, x, f) ==
    LET window == (0..cl.kernels.shape[1] - 1) \X (0..cl.kernels.shape[2] - 1)
                      \X (0..cl.kernels.shape[3] - 1)
    IN  SumQ(window, [k \in window |->
                 QMul(Padded(cl, y + k[1], x + k[2], k[3]),
                      cl.kernels.val[<<k[1], k[2], k[3], f>>])])

\* C6: every __conv2d call that has returned (made directly or by
\* Conv2D.new_iteration) has a result of spatial size
\* H - kh + 2*pad_h + 1 by W - kw + 2*pad_w + 1 with one plane per filter, and
\* its value at (y, x, f) is the stride-1 cross-correlation of the zero-padded
\* input with the unflipped kernel.
C6_CrossCorrelation ==
    call.out.raised = "" =>
        /\ call.out.shape =
               <<1,
                 call.src.shape[2] - call.kernels.shape[1] + 2 * call.padding[1] + 1,
                 call.src.shape[3] - call.kernels.shape[2] + 2 * call.padding[2] + 1,
                 call.kernels.shape[4]>>
        /\ DOMAIN call.out.val = Idx4(call.out.shape)
        /\ \A o \in Idx4(call.out.shape) :
               call.out.val[o] = CrossCorrelation(call, o[2], o[3], o[4])

\* A returned call with an even, non-square kernel, padding on the even axis,
\* several channels and filters and more than one output position per axis.
C6_Witness ==
    /\ call.out.raised = ""
    /\ call.kernels.shape[1] = 2
    /\ call.kernels.shape[2] = 1
    /\ call.padding[1] = 1
    /\ call.src.shape[4] > 1
    /\ call.kernels.shape[4] > 1
    /\ call.out.shape[2] > 1
    /\ call.out.shape[3] > 1

\* A forward pass of a projection whose padded kernel call returned and was
\* accumulated into dst.I.
C6_WitnessProjection ==
    /\ kind = "conv"
    /\ synTick >= 1
    /\ syn.raised = ""
    /\ call.out.raised = ""
    /\ call.padding = <<1, 1>>
    /\ call.out.shape[2] > 1

====
